---------------------------- MODULE Spec2Model ----------------------------
(***************************************************************************)
(* Emoji Replacer (src/main.ts): the text substitution engine that the     *)
(* markdown post-processor runs over a rendered region, and the settings   *)
(* tab that edits the emoji -> icon mapping table.                         *)
(*                                                                         *)
(* A text is a sequence of code points: `for (const char of text)`         *)
(* iterates a string by code point, so one element of a sequence is one    *)
(* value of `char`.  indexOf / substring / length are then taken in the    *)
(* same unit.                                                              *)
(*                                                                         *)
(* Spec         : one render pass (the post-processor callback and the     *)
(*                per-element tasks it dispatches, interleaved at awaits). *)
(* SpecSettings : the settings tab (toggle, add, delete, pick, reload).    *)
(***************************************************************************)
EXTENDS Naturals, Sequences, FiniteSets, TLC

VARIABLES
    settings,        \* this.settings: [customEmojiMappings, enableDefaultIconSearch]
    isMobileDevice,  \* this.isMobileDevice
    emojiModule,     \* this.emojiModule: FALSE is null, TRUE is the imported node-emoji
    svcIcons,        \* icon service: the identifiers hasIcon answers true for
    fault,           \* icon service / node-emoji: the call that fails in this run
    nodes,           \* the DOM of the region: node id -> node
    tasks,           \* one async callback per matched element: el, st, stack
    phase,           \* "idle" before the post-processor is called, "pass" after
    data,            \* the persisted data.json (what loadData returns)
    defaultMappings, \* the object DEFAULT_SETTINGS.customEmojiMappings
    aliased,         \* settings.customEmojiMappings is that same object
    apiAvailable,    \* getApi() returns the icon service in the settings tab
    emojiInput,      \* emojiInput.value
    iconInput,       \* iconInput.value
    notice,          \* text of the Notice the last handler showed, "" if none
    last             \* the last settings handler that ran and what it was given

engineVars  == <<settings, isMobileDevice, emojiModule, svcIcons, fault, nodes, tasks, phase>>
surfaceVars == <<data, defaultMappings, aliased, apiAvailable, emojiInput, iconInput, notice, last>>
vars == <<settings, isMobileDevice, emojiModule, svcIcons, fault, nodes, tasks, phase,
          data, defaultMappings, aliased, apiAvailable, emojiInput, iconInput, notice, last>>

(***************************************************************************)
(* Bounds.                                                                 *)
(***************************************************************************)
MaxLen == 3        \* longest text of a text leaf of the region, in code points

(***************************************************************************)
(* Code points, icons, the external services.                              *)
(***************************************************************************)
PlainChar == "a"         \* a letter
Heart     == "U+2764"    \* an emoji code point
Selector  == "U+FE0F"    \* variation selector 16: part of an emoji, no emoji alone
Chars     == {PlainChar, Heart, Selector}

StarIcon  == "ico_star"  \* an icon a user maps an emoji to
IconIds   == {StarIcon, "luc_heart"}

NoFault   == [kind |-> "none", id |-> ""]
Faults    == {NoFault}
             \cup [kind : {"hasIconThrows", "getSvgRejects", "svgNull"}, id : IconIds]
             \cup [kind : {"isEmojiThrows", "findThrows", "findMissing", "importFails"}, id : {""}]

\* iconSC.isEmoji(char) for a single code point
isEmoji(char) == char = Heart
isEmojiThrows(char) == fault.kind = "isEmojiThrows"

\* iconSC.hasIcon(id)
hasIcon(id) == id \in svcIcons
hasIconThrows(id) == fault = [kind |-> "hasIconThrows", id |-> id]

\* await iconSC.getSVGIcon(id): rejects, resolves to null, or resolves to the graphic
getSVGIconRejects(id) == fault = [kind |-> "getSvgRejects", id |-> id]
getSVGIconNull(id) == fault = [kind |-> "svgNull", id |-> id]

\* this.emojiModule.find(char): the emoji's entry, whose key is its canonical name
findThrows(char) == fault.kind = "findThrows"
findKey(char) == IF char = Heart /\ fault.kind # "findMissing" THEN "heart" ELSE ""

\* `luc_${emojiData.key}`
lucideId(key) == "luc_" \o key

\* await import("node-emoji")
importFails == fault.kind = "importFails"

(***************************************************************************)
(* Strings.                                                                *)
(***************************************************************************)
\* text.indexOf(pat): the 1-based place of the first occurrence, 0 for JS's -1
IndexOf(text, pat) ==
    LET hits == {i \in 1..(Len(text) + 1) :
                    /\ i + Len(pat) - 1 <= Len(text)
                    /\ SubSeq(text, i, i + Len(pat) - 1) = pat}
    IN IF hits = {} THEN 0 ELSE CHOOSE i \in hits : \A j \in hits : i <= j

RECURSIVE SeqsUpTo(_)
SeqsUpTo(n) ==
    IF n = 0 THEN {<<>>}
    ELSE LET shorter == SeqsUpTo(n - 1)
         IN shorter \cup {Append(s, c) : s \in {x \in shorter : Len(x) = n - 1}, c \in Chars}

Texts == SeqsUpTo(MaxLen) \ {<<>>}

(***************************************************************************)
(* The DOM.  A node is a record; its id is its index in `nodes`.           *)
(* emo, via, orig, by record where an inserted node comes from and are     *)
(* read by no operation.                                                   *)
(***************************************************************************)
Elem(tag, parent, kids) ==
    [kind |-> "elem", tag |-> tag, text |-> <<>>, icon |-> "", parent |-> parent,
     kids |-> kids, emo |-> <<>>, via |-> "", orig |-> 0, by |-> 0]
TextNode(text, parent, orig, by) ==
    [kind |-> "text", tag |-> "", text |-> text, icon |-> "", parent |-> parent,
     kids |-> <<>>, emo |-> <<>>, via |-> "", orig |-> orig, by |-> by]
SvgNode(icon, parent, emo, via, orig, by) ==
    [kind |-> "svg", tag |-> "svg", text |-> <<>>, icon |-> icon, parent |-> parent,
     kids |-> <<>>, emo |-> emo, via |-> via, orig |-> orig, by |-> by]

Position(kids, n) == CHOOSE i \in 1..Len(kids) : kids[i] = n

\* parent.insertBefore(new, ref) on the child list
insertBefore(kids, new, ref) ==
    LET p == Position(kids, ref)
    IN SubSeq(kids, 1, p - 1) \o <<new>> \o SubSeq(kids, p, Len(kids))

\* parent.removeChild(n) on the child list
removeChild(kids, n) ==
    LET p == Position(kids, n)
    IN SubSeq(kids, 1, p - 1) \o SubSeq(kids, p + 1, Len(kids))


(***************************************************************************)
(* replaceTextWithIcon (main.ts 36-55).  The function holds no await, so   *)
(* a call runs to its end in one step.  Yields the returned boolean and    *)
(* the DOM after the call.  `via` and `t` only label the inserted nodes.   *)
(***************************************************************************)
\* replaceTextWithIcon with `after` taken from the emoji on (index, not
\* index + emoji.length)
replaceTextWithIconKeepsEmoji(textNode, emoji, icon, via, t) ==
    LET text   == nodes[textNode].text
        index  == IndexOf(text, emoji)
        parent == nodes[textNode].parent
        orig   == nodes[textNode].orig
        b      == Len(nodes) + 1
        s      == Len(nodes) + 2
        a      == Len(nodes) + 3
        before == TextNode(SubSeq(text, 1, index - 1), parent, orig, t)
        after  == TextNode(SubSeq(text, index, Len(text)), parent, orig, t)
        svg    == SvgNode(icon, parent, emoji, via, orig, t)
        kids   == nodes[parent].kids
        p      == Position(kids, textNode)
    IN IF index = 0 \/ parent = 0 THEN [ok |-> FALSE, nodes |-> nodes]
       ELSE [ok |-> TRUE,
             nodes |-> [(nodes \o <<before, svg, after>>) EXCEPT
                            ![parent].kids = SubSeq(kids, 1, p - 1) \o <<b, s, a>>
                                                \o SubSeq(kids, p + 1, Len(kids)),
                            ![textNode].parent = 0]]

replaceTextWithIcon(textNode, emoji, icon, via, t) ==
    LET text   == nodes[textNode].text
        index  == IndexOf(text, emoji)
        parent == nodes[textNode].parent
        orig   == nodes[textNode].orig
        b      == Len(nodes) + 1
        s      == Len(nodes) + 2
        a      == Len(nodes) + 3
        before == TextNode(SubSeq(text, 1, index - 1), parent, orig, t)
        after  == TextNode(SubSeq(text, index + Len(emoji), Len(text)), parent, orig, t)
        svg    == SvgNode(icon, parent, emoji, via, orig, t)     \* svg.cloneNode(true)
        kids0  == nodes[parent].kids
        kids1  == insertBefore(kids0, b, textNode)
        kids2  == insertBefore(kids1, s, textNode)
        kids3  == insertBefore(kids2, a, textNode)
        kids4  == removeChild(kids3, textNode)
    IN IF index = 0 THEN [ok |-> FALSE, nodes |-> nodes]
       ELSE IF parent = 0 THEN [ok |-> FALSE, nodes |-> nodes]
       ELSE [ok |-> TRUE,
             nodes |-> [(nodes \o <<before, svg, after>>) EXCEPT
                            ![parent].kids = kids4,
                            ![textNode].parent = 0]]

(***************************************************************************)
(* processTextNodes on a text leaf (main.ts 59-106): the synchronous run   *)
(* of the character loop from character `ci` up to the next await, the     *)
(* end of the text, or an uncaught exception.                              *)
(*   stage "top"  : line 63, the custom mapping check of character ci      *)
(*   stage "heur" : line 75, after the custom branch did not break         *)
(*   mod          : this.emojiModule is set                                *)
(* Result: [k |-> "await", pc, ci] | [k |-> "return"] | [k |-> "throw"].   *)
(***************************************************************************)
Await(pc, ci) == [k |-> "await", pc |-> pc, ci |-> ci]
Return == [k |-> "return", pc |-> "", ci |-> 0]
Throw == [k |-> "throw", pc |-> "", ci |-> 0]

mapped(char) == <<char>> \in DOMAIN settings.customEmojiMappings
customIconId(char) == settings.customEmojiMappings[<<char>>]

\* lines 92-101 for one character, inside the try block, this.emojiModule set:
\* "getHeur" is the await of line 96, "next" the next turn of the loop (a throw
\* is caught at line 102, after which the loop goes on)
heurStep(char) ==
    LET key == findKey(char)
    IN IF findThrows(char) THEN "next"
       ELSE IF key = "" THEN "next"
       ELSE IF hasIconThrows(lucideId(key)) THEN "next"
       ELSE IF hasIcon(lucideId(key)) THEN "getHeur"
       ELSE "next"

\* lines 63-71 for a character with a custom mapping: "throw" is an exception
\* no try block covers, "heur" the fall through to line 75
customStep(char) ==
    IF hasIconThrows(customIconId(char)) THEN "throw"                     \* line 66
    ELSE IF hasIcon(customIconId(char)) THEN "getCustom"                  \* line 67
    ELSE "heur"

\* lines 75-90 with the mobile check of line 75 left out
fallbackStepOnMobileToo(char, mod) ==
    IF ~settings.enableDefaultIconSearch THEN "next"
    ELSE IF isEmojiThrows(char) THEN "throw"
    ELSE IF ~isEmoji(char) THEN "next"
    ELSE IF ~mod THEN "import"
    ELSE heurStep(char)

\* lines 75-90 with the enableDefaultIconSearch check of line 80 left out
fallbackStepIgnoresFlag(char, mod) ==
    IF isMobileDevice THEN "next"
    ELSE IF isEmojiThrows(char) THEN "throw"
    ELSE IF ~isEmoji(char) THEN "next"
    ELSE IF ~mod THEN "import"
    ELSE heurStep(char)

\* lines 75-90 for one character, up to the import or into the try block
fallbackStep(char, mod) ==
    IF isMobileDevice THEN "next"                                         \* line 75
    ELSE IF ~settings.enableDefaultIconSearch THEN "next"                 \* line 80
    ELSE IF isEmojiThrows(char) THEN "throw"                              \* line 80
    ELSE IF ~isEmoji(char) THEN "next"
    ELSE IF ~mod THEN "import"                                            \* line 85
    ELSE heurStep(char)

\* the loop body with the two branches in the other order: the heuristic
\* lookup first, the custom mapping only when it finds nothing
charStepHeuristicFirst(char, stage, mod) ==
    IF stage = "top" /\ mapped(char) /\ fallbackStep(char, mod) = "next"
    THEN customStep(char)
    ELSE fallbackStep(char, mod)

\* the loop body for one character (lines 63-105), entered at line 63 ("top")
\* or at line 75 ("heur")
charStep(char, stage, mod) ==
    IF stage = "top" /\ mapped(char) THEN customStep(char) ELSE fallbackStep(char, mod)

RECURSIVE scanText(_, _, _, _)
scanText(text, ci, stage, mod) ==
    IF ci > Len(text) THEN Return
    ELSE LET step == charStep(text[ci], stage, mod)
         IN CASE step = "throw" -> Throw
              [] step = "heur"  -> scanText(text, ci, "heur", mod)
              [] step = "next"  -> scanText(text, ci + 1, "top", mod)
              [] OTHER          -> Await(step, ci)

\* the loop from line 92 on for character ci, after the import of line 85
heuristic(text, ci, mod) ==
    IF heurStep(text[ci]) = "next" THEN scanText(text, ci + 1, "top", mod)
    ELSE Await("getHeur", ci)

(***************************************************************************)
(* A task is the async callback of one matched element (main.ts 116-118).  *)
(* Its stack holds the frames of the nested processTextNodes calls: an     *)
(* element frame is at line 110 awaiting child i of its snapshot `kids`;   *)
(* a text frame is suspended at await `pc` on character `ci`, with `r` the *)
(* boolean a finished replaceTextWithIcon returned.  An element frame on   *)
(* top of the stack means its awaited child call has returned.             *)
(***************************************************************************)
ElemFrame(n, kids, i) == [node |-> n, kids |-> kids, i |-> i, pc |-> "child", ci |-> 0, r |-> FALSE]
TextFrame(n, pc, ci, r) == [node |-> n, kids |-> <<>>, i |-> 0, pc |-> pc, ci |-> ci, r |-> r]

Running(stack) == [st |-> "run", stack |-> stack]
Returned(stack) == [st |-> IF stack = <<>> THEN "done" ELSE "run", stack |-> stack]
Rejected(stack) == [st |-> "rejected", stack |-> stack]

Pop(stack) == SubSeq(stack, 1, Len(stack) - 1)
Top(stack) == stack[Len(stack)]

\* the text frame on top of `stack` goes on as the scan result `res` says
AfterScan(stack, res) ==
    CASE res.k = "await"  -> Running([stack EXCEPT ![Len(stack)].pc = res.pc,
                                                   ![Len(stack)].ci = res.ci,
                                                   ![Len(stack)].r = FALSE])
      [] res.k = "return" -> Returned(Pop(stack))
      [] res.k = "throw"  -> Rejected(stack)

\* processTextNodes(n) called with `stack` the frames of its callers, run up to
\* its first await (main.ts 58-113); dom is the DOM at the call
RECURSIVE processTextNodes(_, _, _, _)
processTextNodes(stack, n, dom, mod) ==
    IF dom[n].kind = "text"
    THEN AfterScan(Append(stack, TextFrame(n, "", 0, FALSE)),
                   scanText(dom[n].text, 1, "top", mod))
    ELSE LET kids == dom[n].kids                       \* Array.from(node.childNodes)
         IN IF kids = <<>> THEN Returned(stack)
            ELSE processTextNodes(Append(stack, ElemFrame(n, kids, 1)), kids[1], dom, mod)

(***************************************************************************)
(* Regions handed to the post-processor.  `element` is node 1; the tasks   *)
(* are dispatched for element.querySelectorAll("p, li, div"), which lists  *)
(* the matching descendants in document order (ids are in document order). *)
(***************************************************************************)
\* <div><li>T<ul><li>T</li></ul></li></div>
DocNested(T) ==
    << Elem("root", 0, <<2>>), Elem("li", 1, <<3, 4>>), TextNode(T, 2, 3, 0),
       Elem("ul", 2, <<5>>), Elem("li", 4, <<6>>), TextNode(T, 5, 6, 0) >>
\* <div><p>T</p><p>T</p></div>
DocSiblings(T) ==
    << Elem("root", 0, <<2, 4>>), Elem("p", 1, <<3>>), TextNode(T, 2, 3, 0),
       Elem("p", 1, <<5>>), TextNode(T, 4, 5, 0) >>

Docs == {DocNested(T) : T \in Texts} \cup {DocSiblings(T) : T \in Texts}

RECURSIVE Ascending(_)
Ascending(S) ==
    IF S = {} THEN <<>>
    ELSE LET m == CHOOSE x \in S : \A y \in S : x <= y
         IN <<m>> \o Ascending(S \ {m})

\* element.querySelectorAll("p, li, div")
querySelectorAll(dom) ==
    Ascending({n \in 2..Len(dom) : dom[n].kind = "elem" /\ dom[n].tag \in {"p", "li", "div"}})

(***************************************************************************)
(* The render pass.                                                        *)
(***************************************************************************)
\* main.ts 115-119: forEach calls every callback in turn; each runs up to its
\* first await before the next one starts
PostProcessor ==
    /\ phase = "idle"
    /\ LET els == querySelectorAll(nodes)
       IN tasks' = [i \in 1..Len(els) |->
                       LET res == processTextNodes(<<>>, els[i], nodes, emojiModule)
                       IN [el |-> els[i], st |-> res.st, stack |-> res.stack]]
    /\ phase' = "pass"
    /\ UNCHANGED <<settings, isMobileDevice, emojiModule, svcIcons, fault, nodes>>
    /\ UNCHANGED surfaceVars

Suspended(t, pc) ==
    /\ phase = "pass"
    /\ tasks[t].st = "run"
    /\ Top(tasks[t].stack).pc = pc

Continue(t, res) == tasks' = [tasks EXCEPT ![t].st = res.st, ![t].stack = res.stack]

FrameText(f) == nodes[f.node].text
FrameChar(f) == FrameText(f)[f.ci]

\* line 110: the awaited child call has returned; go on with the next child of
\* the snapshot, or return
ResumeChild(t) ==
    /\ Suspended(t, "child")
    /\ LET stack == tasks[t].stack
           f == Top(stack)
       IN IF f.i < Len(f.kids)
          THEN Continue(t, processTextNodes([stack EXCEPT ![Len(stack)].i = f.i + 1],
                                            f.kids[f.i + 1], nodes, emojiModule))
          ELSE Continue(t, Returned(Pop(stack)))
    /\ UNCHANGED <<settings, isMobileDevice, emojiModule, svcIcons, fault, nodes, phase>>
    /\ UNCHANGED surfaceVars

\* line 67 resolves (or rejects), then line 68 calls replaceTextWithIcon
ResumeGetCustom(t) ==
    /\ Suspended(t, "getCustom")
    /\ LET stack == tasks[t].stack
           f == Top(stack)
           id == customIconId(FrameChar(f))
           rep == replaceTextWithIcon(f.node, <<FrameChar(f)>>, id, "custom", t)
       IN IF getSVGIconRejects(id)
          THEN Continue(t, Rejected(stack)) /\ nodes' = nodes
          ELSE IF getSVGIconNull(id)
          THEN /\ Continue(t, AfterScan(stack, scanText(FrameText(f), f.ci, "heur", emojiModule)))
               /\ nodes' = nodes
          ELSE /\ Continue(t, Running([stack EXCEPT ![Len(stack)].pc = "replCustom",
                                                     ![Len(stack)].r = rep.ok]))
               /\ nodes' = rep.nodes
    /\ UNCHANGED <<settings, isMobileDevice, emojiModule, svcIcons, fault, phase>>
    /\ UNCHANGED surfaceVars

\* line 68: the await of replaceTextWithIcon's result, then break or fall through
ResumeReplCustom(t) ==
    /\ Suspended(t, "replCustom")
    /\ LET stack == tasks[t].stack
           f == Top(stack)
       IN IF f.r
          THEN Continue(t, Returned(Pop(stack)))
          ELSE Continue(t, AfterScan(stack, scanText(FrameText(f), f.ci, "heur", emojiModule)))
    /\ UNCHANGED <<settings, isMobileDevice, emojiModule, svcIcons, fault, nodes, phase>>
    /\ UNCHANGED surfaceVars

\* line 85 resolves or rejects (catch at 86: continue)
ResumeImport(t) ==
    /\ Suspended(t, "import")
    /\ LET stack == tasks[t].stack
           f == Top(stack)
       IN IF importFails
          THEN /\ Continue(t, AfterScan(stack, scanText(FrameText(f), f.ci + 1, "top", emojiModule)))
               /\ emojiModule' = emojiModule
          ELSE /\ Continue(t, AfterScan(stack, heuristic(FrameText(f), f.ci, TRUE)))
               /\ emojiModule' = TRUE
    /\ UNCHANGED <<settings, isMobileDevice, svcIcons, fault, nodes, phase>>
    /\ UNCHANGED surfaceVars

\* line 96 resolves (or rejects into the catch at 102), then line 97 calls
\* replaceTextWithIcon
ResumeGetHeur(t) ==
    /\ Suspended(t, "getHeur")
    /\ LET stack == tasks[t].stack
           f == Top(stack)
           id == lucideId(findKey(FrameChar(f)))
           rep == replaceTextWithIcon(f.node, <<FrameChar(f)>>, id, "heur", t)
       IN IF getSVGIconRejects(id) \/ getSVGIconNull(id)
          THEN /\ Continue(t, AfterScan(stack, scanText(FrameText(f), f.ci + 1, "top", emojiModule)))
               /\ nodes' = nodes
          ELSE /\ Continue(t, Running([stack EXCEPT ![Len(stack)].pc = "replHeur",
                                                     ![Len(stack)].r = rep.ok]))
               /\ nodes' = rep.nodes
    /\ UNCHANGED <<settings, isMobileDevice, emojiModule, svcIcons, fault, phase>>
    /\ UNCHANGED surfaceVars

\* line 97: the await of replaceTextWithIcon's result, then break or next character
ResumeReplHeur(t) ==
    /\ Suspended(t, "replHeur")
    /\ LET stack == tasks[t].stack
           f == Top(stack)
       IN IF f.r
          THEN Continue(t, Returned(Pop(stack)))
          ELSE Continue(t, AfterScan(stack, scanText(FrameText(f), f.ci + 1, "top", emojiModule)))
    /\ UNCHANGED <<settings, isMobileDevice, emojiModule, svcIcons, fault, nodes, phase>>
    /\ UNCHANGED surfaceVars

(***************************************************************************)
(* Settings: defaults, load and save (main.ts 12-15, 131-137).             *)
(* data.json is a JSON document: an object is a set of <<key, value>>      *)
(* members, and `has` names the members of the top-level object that are   *)
(* present (none when there is no file and loadData returns null).         *)
(***************************************************************************)
NoData == [has |-> {}, customEmojiMappings |-> {}, enableDefaultIconSearch |-> TRUE]

\* JSON.stringify of the mapping object
Stringify(table) == {<<k, table[k]>> : k \in DOMAIN table}
\* JSON.parse of the mapping object
Parse(members) == [k \in {m[1] : m \in members} |-> (CHOOSE m \in members : m[1] = k)[2]]

\* saveSettings: await this.saveData(this.settings)
saveSettings(st) ==
    [has |-> {"customEmojiMappings", "enableDefaultIconSearch"},
     customEmojiMappings |-> Stringify(st.customEmojiMappings),
     enableDefaultIconSearch |-> st.enableDefaultIconSearch]

\* Object.assign({}, await this.loadData(), DEFAULT_SETTINGS): the defaults last
loadSettingsDefaultsLast(d, defaults) ==
    [customEmojiMappings |-> defaults, enableDefaultIconSearch |-> TRUE]

\* loadSettings: Object.assign({}, DEFAULT_SETTINGS, await this.loadData()), a
\* shallow copy: without a stored table the settings share DEFAULT_SETTINGS' object
loadSettings(d, defaults) ==
    [customEmojiMappings |->
        IF "customEmojiMappings" \in d.has THEN Parse(d.customEmojiMappings) ELSE defaults,
     enableDefaultIconSearch |->
        IF "enableDefaultIconSearch" \in d.has THEN d.enableDefaultIconSearch ELSE TRUE]
loadAliases(d) == "customEmojiMappings" \notin d.has

(***************************************************************************)
(* The settings tab (main.ts 197-409).  A handler runs as one step, its    *)
(* awaited saveSettings and the refresh of the list included.              *)
(***************************************************************************)
EmojiInputs == {<<>>, <<PlainChar>>, <<Heart>>, <<Heart, Selector>>, <<Heart, Heart>>}
IconInputs  == {""} \cup IconIds

\* what iconSC.isEmoji(str) may answer for the whole input: the icon service's
\* answer for a string of several code points is its own affair
isEmojiAnswers(str) == IF Len(str) = 1 THEN {isEmoji(str[1])} ELSE BOOLEAN

\* lines 384-395 without the check of line 388
onlyOneEmojiUnchecked(emoji, i, foundEmoji) == TRUE

\* lines 384-395: TRUE when the loop ends without finding a second emoji
RECURSIVE onlyOneEmoji(_, _, _)
onlyOneEmoji(emoji, i, foundEmoji) ==
    IF i > Len(emoji) THEN TRUE
    ELSE IF isEmoji(emoji[i])
         THEN IF foundEmoji THEN FALSE ELSE onlyOneEmoji(emoji, i + 1, TRUE)
         ELSE onlyOneEmoji(emoji, i + 1, foundEmoji)

\* the Notice the Add mapping handler ends with, "" when it adds the mapping
addNotice(emoji, iconId, api, recognized) ==
    IF emoji = <<>> \/ iconId = "" THEN "Both emoji and icon shortcode are required"
    ELSE IF ~api \/ ~recognized THEN "Please enter a valid emoji character"
    ELSE IF ~onlyOneEmoji(emoji, 1, FALSE) THEN "Please enter only one emoji"
    ELSE ""

Put(table, k, v) == [x \in DOMAIN table \cup {k} |-> IF x = k THEN v ELSE table[x]]
Remove(table, k) == [x \in DOMAIN table \ {k} |-> table[x]]

Last(op, emoji, icon, recognized) ==
    [op |-> op, emoji |-> emoji, icon |-> icon, recognized |-> recognized]

SurfaceFrame == UNCHANGED <<isMobileDevice, emojiModule, svcIcons, fault, nodes, tasks, phase,
                            apiAvailable>>

\* the user edits the emoji field
TypeEmoji(s) ==
    /\ emojiInput' = s
    /\ notice' = ""
    /\ last' = Last("type", <<>>, "", FALSE)
    /\ UNCHANGED <<settings, data, defaultMappings, aliased, iconInput>>
    /\ SurfaceFrame

\* the user edits the icon field
TypeIcon(i) ==
    /\ iconInput' = i
    /\ notice' = ""
    /\ last' = Last("type", <<>>, "", FALSE)
    /\ UNCHANGED <<settings, data, defaultMappings, aliased, emojiInput>>
    /\ SurfaceFrame

\* lines 337-350: `picked` is what getIconFromUser resolves to, "" when cancelled
PickIcon(picked) ==
    /\ IF ~apiAvailable
       THEN notice' = "Icon Shortcodes API not available" /\ iconInput' = iconInput
       ELSE notice' = "" /\ iconInput' = (IF picked = "" THEN iconInput ELSE picked)
    /\ last' = Last("pick", <<>>, "", FALSE)
    /\ UNCHANGED <<settings, data, defaultMappings, aliased, emojiInput>>
    /\ SurfaceFrame

\* lines 366-407
AddMapping(recognized) ==
    LET emoji  == emojiInput
        iconId == iconInput
        msg    == addNotice(emoji, iconId, apiAvailable, recognized)
        table  == Put(settings.customEmojiMappings, emoji, iconId)
        next   == [settings EXCEPT !.customEmojiMappings = table]
    IN /\ recognized \in isEmojiAnswers(emoji)
       /\ notice' = msg
       /\ last' = Last("add", emoji, iconId, recognized)
       /\ IF msg # ""
          THEN UNCHANGED <<settings, data, defaultMappings, aliased, emojiInput, iconInput>>
          ELSE /\ settings' = next
               /\ defaultMappings' = (IF aliased THEN table ELSE defaultMappings)
               /\ data' = saveSettings(next)
               /\ emojiInput' = <<>>
               /\ iconInput' = ""
               /\ aliased' = aliased
       /\ SurfaceFrame

\* lines 295-299: the Delete button of the row of `emoji`
DeleteMapping(emoji) ==
    LET table == Remove(settings.customEmojiMappings, emoji)
        next  == [settings EXCEPT !.customEmojiMappings = table]
    IN /\ emoji \in DOMAIN settings.customEmojiMappings
       /\ settings' = next
       /\ defaultMappings' = (IF aliased THEN table ELSE defaultMappings)
       /\ data' = saveSettings(next)
       /\ notice' = ""
       /\ last' = Last("delete", emoji, "", FALSE)
       /\ UNCHANGED <<aliased, emojiInput, iconInput>>
       /\ SurfaceFrame

\* lines 211-214: the toggle's onChange with the new value
ToggleDefaultIconSearch ==
    LET next == [settings EXCEPT !.enableDefaultIconSearch = ~settings.enableDefaultIconSearch]
    IN /\ settings' = next
       /\ data' = saveSettings(next)
       /\ notice' = ""
       /\ last' = Last("toggle", <<>>, "", FALSE)
       /\ UNCHANGED <<defaultMappings, aliased, emojiInput, iconInput>>
       /\ SurfaceFrame

\* onload again (the plugin is disabled and enabled): line 23, and the tab is
\* built anew when it is next shown
Reload ==
    /\ settings' = loadSettings(data, defaultMappings)
    /\ aliased' = loadAliases(data)
    /\ emojiInput' = <<>>
    /\ iconInput' = ""
    /\ notice' = ""
    /\ last' = Last("load", <<>>, "", FALSE)
    /\ UNCHANGED <<data, defaultMappings>>
    /\ SurfaceFrame

(***************************************************************************)
(* Specifications.                                                         *)
(***************************************************************************)
EmptyTable == [k \in {} |-> ""]
NoLast == Last("none", <<>>, "", FALSE)

\* the keys the Add mapping handler can put into the table
AcceptedKeys ==
    {k \in EmojiInputs : \E rec \in isEmojiAnswers(k) : addNotice(k, StarIcon, TRUE, rec) = ""}

\* tables in force during a render pass
PassTables == UNION {[D -> {StarIcon}] : D \in SUBSET AcceptedKeys}

\* the failing call is one the pass can make: a call on the mapped icon needs a
\* mapping to it, a call of the heuristic path needs the path to be open
FaultCanFire ==
    IF fault.id = StarIcon THEN <<Heart>> \in DOMAIN settings.customEmojiMappings
    ELSE ~isMobileDevice /\ settings.enableDefaultIconSearch

\* A render pass: onLayoutReady found the icon service (line 28) and registered
\* the post-processor; the settings are as loaded and do not change in the pass.
Init ==
    /\ settings \in [customEmojiMappings : PassTables, enableDefaultIconSearch : BOOLEAN]
    /\ isMobileDevice \in BOOLEAN
    /\ emojiModule = FALSE
    /\ svcIcons \in SUBSET IconIds
    /\ fault \in Faults
    /\ fault # NoFault => svcIcons = IconIds /\ FaultCanFire
    /\ nodes \in Docs
    /\ tasks = <<>>
    /\ phase = "idle"
    /\ data = saveSettings(settings)
    /\ defaultMappings = EmptyTable
    /\ aliased = FALSE
    /\ apiAvailable = TRUE
    /\ emojiInput = <<>>
    /\ iconInput = ""
    /\ notice = ""
    /\ last = NoLast

Next ==
    \/ PostProcessor
    \/ \E t \in DOMAIN tasks : ResumeChild(t)
    \/ \E t \in DOMAIN tasks : ResumeGetCustom(t)
    \/ \E t \in DOMAIN tasks : ResumeReplCustom(t)
    \/ \E t \in DOMAIN tasks : ResumeImport(t)
    \/ \E t \in DOMAIN tasks : ResumeGetHeur(t)
    \/ \E t \in DOMAIN tasks : ResumeReplHeur(t)

Spec == Init /\ [][Next]_vars

\* what data.json may hold when the plugin is loaded
StoredData ==
    { NoData,
      [has |-> {"enableDefaultIconSearch"}, customEmojiMappings |-> {},
       enableDefaultIconSearch |-> FALSE],
      [has |-> {"customEmojiMappings"}, customEmojiMappings |-> {<<(<<Heart>>), StarIcon>>},
       enableDefaultIconSearch |-> TRUE] }

\* The settings tab after onload (line 23) and display.
InitSettings ==
    /\ data \in StoredData
    /\ defaultMappings = EmptyTable
    /\ settings = loadSettings(data, defaultMappings)
    /\ aliased = loadAliases(data)
    /\ apiAvailable \in BOOLEAN
    /\ emojiInput = <<>>
    /\ iconInput = ""
    /\ notice = ""
    /\ last = NoLast
    /\ isMobileDevice = FALSE
    /\ emojiModule = FALSE
    /\ svcIcons = IconIds
    /\ fault = NoFault
    /\ nodes = <<>>
    /\ tasks = <<>>
    /\ phase = "settings"

NextSettings ==
    \/ \E s \in EmojiInputs : TypeEmoji(s)
    \/ \E i \in IconInputs : TypeIcon(i)
    \/ \E picked \in IconInputs : PickIcon(picked)
    \/ \E recognized \in BOOLEAN : AddMapping(recognized)
    \/ \E emoji \in DOMAIN settings.customEmojiMappings : DeleteMapping(emoji)
    \/ ToggleDefaultIconSearch
    \/ Reload

SpecSettings == InitSettings /\ [][NextSettings]_vars

(***************************************************************************)
(* Properties of the render pass.                                          *)
(***************************************************************************)
Ids == 1..Len(nodes)
Svgs == {n \in Ids : nodes[n].kind = "svg"}
\* the text leaves the region had when the post-processor was called
OrigLeaves == {n \in Ids : nodes[n].kind = "text" /\ nodes[n].orig = n}
PassDone == phase = "pass" /\ \A t \in DOMAIN tasks : tasks[t].st \in {"done", "rejected"}
Table == settings.customEmojiMappings

\* the adapter has the icon: hasIcon answers true and getSVGIcon yields a graphic
available(id) ==
    hasIcon(id) /\ ~hasIconThrows(id) /\ ~getSVGIconRejects(id) /\ ~getSVGIconNull(id)

\* the text of a subtree, every inserted graphic read as the emoji it replaced
RECURSIVE ReadBack(_, _)
RECURSIVE ReadBackAll(_, _, _)
ReadBack(dom, n) ==
    CASE dom[n].kind = "text" -> dom[n].text
      [] dom[n].kind = "svg"  -> dom[n].emo
      [] OTHER                -> ReadBackAll(dom, dom[n].kids, 1)
ReadBackAll(dom, kids, i) ==
    IF i > Len(kids) THEN <<>> ELSE ReadBack(dom, kids[i]) \o ReadBackAll(dom, kids, i + 1)

\* the text of the region as it was handed over
OriginalText == ReadBackAll(nodes, Ascending(OrigLeaves), 1)

\* every attached node is listed once by its parent and by no other node
WellFormed ==
    \A n \in Ids :
        /\ nodes[n].parent # 0 =>
              Cardinality({i \in 1..Len(nodes[nodes[n].parent].kids) :
                              nodes[nodes[n].parent].kids[i] = n}) = 1
        /\ \A p \in Ids : \A i \in 1..Len(nodes[p].kids) :
              nodes[p].kids[i] = n => nodes[n].parent = p

\* a step that changes the DOM replaces one attached text leaf L of parent P by
\* before, graphic, after and touches nothing else
SpliceStep ==
    nodes' # nodes =>
      \E L \in Ids :
        LET P    == nodes[L].parent
            text == nodes[L].text
            b    == Len(nodes) + 1
            g    == Len(nodes) + 2
            a    == Len(nodes) + 3
        IN /\ nodes[L].kind = "text" /\ P # 0
           /\ Len(nodes') = Len(nodes) + 3
           /\ LET kids == nodes[P].kids
                  p    == Position(kids, L)
                  E    == nodes'[g].emo
                  at   == IndexOf(text, E)
              IN /\ nodes'[P].kids = SubSeq(kids, 1, p - 1) \o <<b, g, a>>
                                       \o SubSeq(kids, p + 1, Len(kids))
                 /\ E # <<>> /\ at > 0
                 /\ nodes'[b].kind = "text" /\ nodes'[b].text = SubSeq(text, 1, at - 1)
                 /\ nodes'[g].kind = "svg" /\ nodes'[g].icon \in IconIds
                 /\ nodes'[a].kind = "text"
                 /\ nodes'[a].text = SubSeq(text, at + Len(E), Len(text))
                 /\ \A n \in {b, g, a} : nodes'[n].parent = P /\ nodes'[n].kids = <<>>
           /\ nodes'[L] = [nodes[L] EXCEPT !.parent = 0]
           /\ \A n \in Ids \ {L, P} : nodes'[n] = nodes[n]
           /\ \A n \in Ids : nodes'[n].text = nodes[n].text /\ nodes'[n].kind = nodes[n].kind

\* C1: a substitution replaces the attached leaf, in its parent, by the text
\* before the first occurrence of the emoji, a fresh graphic node and the text
\* after it, leaving every other node as it was; so in every state of a pass the
\* region, with each graphic read back as its emoji, is the original text.
C1_SplicePreservesText ==
    /\ [](WellFormed /\ ReadBack(nodes, 1) = OriginalText)
    /\ [][SpliceStep]_vars

\* an emoji with text on both sides was replaced in a leaf of the region
C1_Witness ==
    \E g \in Svgs :
        /\ nodes[g].parent # 0
        /\ nodes[g - 1].text # <<>> /\ nodes[g + 1].text # <<>>
        /\ nodes[g - 1].parent = nodes[g].parent /\ nodes[g + 1].parent = nodes[g].parent

\* the graphic g stands for a character with a custom mapping
ForMapped(g) == Len(nodes[g].emo) = 1 /\ mapped(nodes[g].emo[1])
IsMappedGraphic(g) == nodes[g].via = "custom" /\ nodes[g].icon = customIconId(nodes[g].emo[1])

\* C2 as stated: whatever the icon service holds, a graphic substituted for a
\* mapped character is the mapped icon's, never the heuristic one.
C2_Original == \A g \in Svgs : ForMapped(g) => IsMappedGraphic(g)

\* C2 amended: when the adapter has the mapped icon, a graphic substituted for a
\* mapped character is the mapped icon's, never the heuristic one.
C2_MappingPriority ==
    \A g \in Svgs :
        ForMapped(g) /\ available(customIconId(nodes[g].emo[1])) => IsMappedGraphic(g)

\* the mapped icon was inserted although the heuristic path was open and its
\* icon, a different one, exists
C2_Witness ==
    /\ ~isMobileDevice /\ settings.enableDefaultIconSearch
    /\ hasIcon(lucideId("heart"))
    /\ \E g \in Svgs : ForMapped(g) /\ IsMappedGraphic(g) /\ nodes[g].icon # lucideId("heart")

NoHeuristicGraphic == \A g \in Svgs : nodes[g].via # "heur"

\* the first character of a text with a mapping to an icon the adapter has, 0 if none
FirstMapped(text) ==
    LET hits == {i \in 1..Len(text) : mapped(text[i]) /\ available(customIconId(text[i]))}
    IN IF hits = {} THEN 0 ELSE CHOOSE i \in hits : \A j \in hits : i <= j

\* at the end of the pass every leaf of the region holding a character mapped to
\* an icon the adapter has was split at the first such character, the mapped
\* graphic in its place
CustomApplied ==
    PassDone =>
      \A L \in OrigLeaves :
        LET at == FirstMapped(nodes[L].text)
        IN at # 0 =>
             \E g \in Svgs :
                /\ nodes[g].by # 0 /\ nodes[g - 1].text = SubSeq(nodes[L].text, 1, at - 1)
                /\ nodes[g].orig = L /\ nodes[g].emo = <<nodes[L].text[at]>>
                /\ IsMappedGraphic(g) /\ nodes[L].parent = 0

\* C3: with enableDefaultIconSearch false no heuristic graphic is ever inserted,
\* and a character mapped to an icon the adapter has is still replaced by it.
C3_FlagOffCustomOnly ==
    ~settings.enableDefaultIconSearch => NoHeuristicGraphic /\ CustomApplied

\* flag off, an emoji replaced through its mapping
C3_Witness ==
    /\ ~settings.enableDefaultIconSearch /\ ~isMobileDevice /\ PassDone
    /\ \E g \in Svgs : IsMappedGraphic(g)

\* C4: on a mobile device node-emoji is never imported (nor is its import
\* awaited), no heuristic graphic is inserted whatever the flag, and a character
\* mapped to an icon the adapter has is still replaced by it.
C4_MobileCustomOnly ==
    isMobileDevice =>
        /\ emojiModule = FALSE
        /\ \A t \in DOMAIN tasks : \A i \in 1..Len(tasks[t].stack) :
              tasks[t].stack[i].pc \notin {"import", "getHeur", "replHeur"}
        /\ NoHeuristicGraphic
        /\ CustomApplied

\* mobile, flag on, an emoji replaced through its mapping
C4_Witness ==
    /\ isMobileDevice /\ settings.enableDefaultIconSearch /\ PassDone
    /\ \E g \in Svgs : IsMappedGraphic(g)

\* C7 as stated: a failing call on one character never aborts the task of the
\* element being processed.
C7_Original == \A t \in DOMAIN tasks : tasks[t].st # "rejected"

\* C8 as stated: in one pass at most one emoji occurrence of the text of each
\* leaf the region had at its start is replaced (the after-fragment of a
\* replacement is not scanned again).
C8_Original ==
    \A L \in OrigLeaves : Cardinality({g \in Svgs : nodes[g].orig = L}) <= 1

\* the nodes task t is inside of: the elements and the leaf of its pending calls
Inside(t) ==
    IF tasks[t].st = "run"
    THEN {tasks[t].stack[i].node : i \in 1..Len(tasks[t].stack)}
    ELSE {}

\* C9 as stated: no two tasks of a pass are in progress inside the same element
\* or the same text leaf at the same time.
C9_Original ==
    \A t1, t2 \in DOMAIN tasks : t1 # t2 => Inside(t1) \cap Inside(t2) = {}

\* the emoji code points of a text
EmojiPlaces(text) == {i \in 1..Len(text) : isEmoji(text[i])}

\* C10 as stated: a key of several code points that the add-mapping action
\* accepts, mapped to an icon the adapter has, is replaced as a whole by the
\* mapped graphic in a leaf that contains it (here: as its only emoji).
C10_Original ==
    PassDone /\ fault = NoFault =>
      \A k \in DOMAIN Table : \A L \in OrigLeaves :
        ( /\ Len(k) > 1 /\ k \in AcceptedKeys /\ available(Table[k])
          /\ IndexOf(nodes[L].text, k) # 0
          /\ Cardinality(EmojiPlaces(nodes[L].text)) = 1 )
        => \E g \in Svgs :
              nodes[g].orig = L /\ nodes[g].emo = k /\ nodes[g].icon = Table[k]

(***************************************************************************)
(* Properties of the settings tab.                                         *)
(***************************************************************************)
\* the input is one the claim calls invalid
InvalidInput(emoji, iconId, recognized) ==
    \/ emoji = <<>>
    \/ iconId = ""
    \/ ~recognized
    \/ Cardinality(EmojiPlaces(emoji)) >= 2

RejectedAdd ==
    last'.op = "add" /\ InvalidInput(last'.emoji, last'.icon, last'.recognized)
        => settings' = settings /\ data' = data /\ notice' # ""

\* C5: an Add mapping click with an empty field, an input the adapter does not
\* recognise, or an input with two or more emoji changes neither the table nor
\* the stored data and shows a notice; so no key ever holds more than one emoji.
C5_AddRejectsInvalid ==
    /\ [][RejectedAdd]_vars
    /\ [](\A k \in DOMAIN Table : Cardinality(EmojiPlaces(k)) <= 1)

\* an input of two emoji, recognised by the adapter, was turned down
C5_Witness ==
    /\ last.op = "add" /\ last.emoji = <<Heart, Heart>> /\ last.recognized
    /\ last.icon # "" /\ apiAvailable
    /\ notice = "Please enter only one emoji"

Persisted ==
    /\ data.has = {"customEmojiMappings", "enableDefaultIconSearch"}
    /\ Parse(data.customEmojiMappings) = Table
    /\ DOMAIN Table = {m[1] : m \in data.customEmojiMappings}
    /\ data.enableDefaultIconSearch = settings.enableDefaultIconSearch

\* C6: after an accepted add the key maps to the icon given, after a delete the
\* key is absent, and after every add, delete or toggle the stored data equal
\* the settings in memory and loadSettings gives them back.
C6_StoreRoundTrip ==
    /\ last.op = "add" /\ notice = "" =>
          last.emoji \in DOMAIN Table /\ Table[last.emoji] = last.icon
    /\ last.op = "delete" => last.emoji \notin DOMAIN Table
    /\ (last.op = "add" /\ notice = "") \/ last.op \in {"delete", "toggle"} =>
          Persisted /\ loadSettings(data, defaultMappings) = settings

\* a key of two code points was added to a table that already had a key
C6_Witness ==
    /\ last.op = "add" /\ notice = "" /\ last.emoji = <<Heart, Selector>>
    /\ Table[last.emoji] = "luc_heart" /\ Cardinality(DOMAIN Table) = 2
    /\ ~settings.enableDefaultIconSearch

============================================================================
